---- MODULE Spec2Model ----
(***************************************************************************)
(* Model of residual-connections.ipynb: the metrics-collecting training    *)
(* loop (train_loop), its driver (get_results) and the forward pass of the *)
(* four hand-written topologies (Block, ResBlock, AltBlock, net0..net3).   *)
(*                                                                         *)
(* Tensors are abstracted to what the checked properties need: a loss is   *)
(* a natural number, a mean is the exact fraction <<numerator,             *)
(* denominator>>, a topology's parameters are the number of optimizer      *)
(* steps applied to them, a gradient buffer is the list of batches whose   *)
(* gradients it has accumulated, a feature map is its shape.               *)
(***************************************************************************)
EXTENDS Integers, Sequences, FiniteSets, TLC

\* ---------------------------------------------------------------- bounds
MaxModels == 5
MaxEpochs == 2
MaxTrainBatches == 2
MaxTestSet == 3
MaxLoss == 1
\* most batch evaluations of a run for which every loss value is explored
MaxFree == 4
\* batch size of both loaders (128 in the notebook, scaled down)
bs == 2

\* ------------------------------------------------------ program constants
\* get_results builds the columns of net0..net3 only
NetCols == 4

MetricNames == <<"train_loss", "valid_loss", "accuracy">>

\* a cell never assigned: the fraction 0/0
NaN == <<0, 0>>

\* the learning rates tried (opaque values)
LearningRates == {"lr_a", "lr_b"}

VARIABLES
  \* inputs of get_results and the ambient loaders
  models, epochs, lr, nTrain, nTest, oracle,
  \* get_results
  gpc, i, results, retval, uncaught,
  \* train_loop
  tpc, metrics, ep, current, acc, b, loss, pred,
  train_loss, valid_loss, accuracy, ret, exc,
  \* the topologies, autograd and the optimizer
  params, mode, grad, gradEnabled, optimizer, nOpt,
  \* history (not program state)
  ops, seen, expected, runs, runLog,
  \* forward pass of one topology on one batch
  fnet, fbatch, fsize, ftraining, fpc, fx, fsaved, flog, ferr

inputs == <<models, epochs, lr, nTrain, nTest, oracle>>
driver == <<gpc, i, results, retval, uncaught>>
locals == <<metrics, ep, current, acc, b, loss, pred,
            train_loss, valid_loss, accuracy, ret>>
nets == <<params, mode, grad>>
opt == <<optimizer, nOpt>>
ghost == <<ops, seen, expected, runs, runLog>>
fwd == <<fnet, fbatch, fsize, ftraining, fpc, fx, fsaved, flog, ferr>>
vars == <<inputs, driver, tpc, exc, locals, nets, gradEnabled, opt, ghost, fwd>>

\* ------------------------------------------------------------- helpers
RECURSIVE SumSeq(_)
SumSeq(s) == IF s = <<>> THEN 0 ELSE Head(s) + SumSeq(Tail(s))

SelectPhase(s, e, ph) == SelectSeq(s, LAMBDA r : r.ep = e /\ r.phase = ph)

LossesOf(s, e, ph) ==
  [j \in 1..Len(SelectPhase(s, e, ph)) |-> SelectPhase(s, e, ph)[j].loss]

HitsOf(s, e) ==
  [j \in 1..Len(SelectPhase(s, e, "eval")) |-> SelectPhase(s, e, "eval")[j].hits]

\* len(DataLoader(dataset, batch_size)) with drop_last = False
LoaderLen(n, bsz) == (n + bsz - 1) \div bsz

\* number of examples in the j-th batch (1-based) of such a loader
BatchLen(n, bsz, j) == IF j * bsz <= n THEN bsz ELSE n - (j - 1) * bsz

\* current / len(loader): true division, undefined for a zero divisor
TrueDiv(num, den) == <<num, den>>

\* the topology being trained by the running train_loop
model == models[i + 1]

\* values the criterion can return for batch bb of phase ph in epoch e
FixedLoss(k, e, ph, bb) == 1 + k + 2 * e + (IF ph = "train" THEN 0 ELSE 1) + bb

Losses(k, e, ph, bb) ==
  IF oracle = "any" THEN 0..MaxLoss ELSE {FixedLoss(k, e, ph, bb)}

\* possible numbers of positions of a batch of n examples where pred = lab
Hits(k, e, bb, n) ==
  IF oracle = "any" THEN 0..n ELSE {(k + e + bb) % (n + 1)}

EmptyTable(n) ==
  [c \in (0..(NetCols - 1)) \X {MetricNames[m] : m \in 1..3} |-> [r \in 1..n |-> NaN]]


\* ------------------------------------------------ blocks and topologies
MaxBatch == 2

\* largest kernel size and largest input height = width for which a lone
\* ResBlock is applied
MaxFs == 5
MaxProbeSize == 6

\* height = width of the square input images tried (CIFAR10 images are 32)
InputSizes == {8, 23, 32}

\* class Block: conv, batch norm and, if rl is truthy, relu
Block(c_in, c_out, fs, p, rl) ==
  [kind |-> "Block", c_in |-> c_in, c_out |-> c_out, fs |-> fs, p |-> p, rl |-> rl]

\* Block(c_in, c_out, fs) with the defaults p = 0, rl = True
BlockD(c_in, c_out, fs) == Block(c_in, c_out, fs, 0, "True")

\* a ResBlock whose padding follows the kernel size
ResBlockSamePad(nc, fs) ==
  [kind |-> "ResBlock", nc |-> nc, fs |-> fs,
   a |-> Block(nc, nc, fs, fs \div 2, "True"),
   b |-> Block(nc, nc, fs, fs \div 2, "None")]

\* class ResBlock, __init__
ResBlock(nc, fs) ==
  [kind |-> "ResBlock", nc |-> nc, fs |-> fs,
   a |-> Block(nc, nc, fs, 1, "True"),
   b |-> Block(nc, nc, fs, 1, "None")]

\* class AltBlock, __init__
AltBlock(nc, fs1, fs2) ==
  [kind |-> "AltBlock", nc |-> nc, fs1 |-> fs1, fs2 |-> fs2,
   a |-> Block(nc, nc, fs1, 0, "True"),
   b |-> Block(nc, nc, fs1, 0, "None"),
   c |-> Block(nc, nc, fs2, 0, "None")]

AdaptiveAvgPool2d(n) == [kind |-> "AdaptiveAvgPool2d", out |-> n]

Flatten == [kind |-> "Flatten"]

Linear(n_in, n_out) == [kind |-> "Linear", n_in |-> n_in, n_out |-> n_out]

net0 ==
  << BlockD(3, 6, 5), BlockD(6, 16, 3), BlockD(16, 16, 3), BlockD(16, 16, 3),
     BlockD(16, 32, 3), BlockD(32, 32, 3), BlockD(32, 32, 3), BlockD(32, 64, 3),
     BlockD(64, 64, 3), BlockD(64, 64, 3),
     AdaptiveAvgPool2d(1), Flatten, Linear(64, 10) >>

net1 ==
  << BlockD(3, 6, 5), BlockD(6, 16, 3), BlockD(16, 16, 5), BlockD(16, 32, 3),
     BlockD(32, 32, 5), BlockD(32, 64, 3), BlockD(64, 64, 5),
     AdaptiveAvgPool2d(1), Flatten, Linear(64, 10) >>

net2 ==
  << BlockD(3, 6, 5), BlockD(6, 16, 3), ResBlock(16, 3), BlockD(16, 32, 3),
     ResBlock(32, 3), BlockD(32, 64, 3), ResBlock(64, 3),
     AdaptiveAvgPool2d(1), Flatten, Linear(64, 10) >>

net3 ==
  << BlockD(3, 6, 5), BlockD(6, 16, 3), AltBlock(16, 3, 5), BlockD(16, 32, 3),
     AltBlock(32, 3, 5), BlockD(32, 64, 3), AltBlock(64, 3, 5),
     AdaptiveAvgPool2d(1), Flatten, Linear(64, 10) >>

\* models = [net0, net1, net2, net3]
Nets == <<net0, net1, net2, net3>>

\* Python truthiness of the rl argument (True or None)
Truthy(v) == v = "True"

Op(op, u, blk) == [op |-> op, u |-> u, blk |-> blk]

NoBlock == [kind |-> "none"]

\* Block.forward on the current tensor, as the steps it performs
BlockForward(blk, u) ==
  << Op("conv", u, blk), Op("norm", u, blk) >>
  \o (IF Truthy(blk.rl) THEN << Op("relu", u, blk) >> ELSE << >>)

\* ResBlock.forward: y = self.a(self.b(x)); return self.relu(x + y)
ResBlockForward(rb) ==
  << Op("save", "ResBlock", NoBlock) >>
  \o BlockForward(rb.b, "b") \o BlockForward(rb.a, "a")
  \o << Op("add", "ResBlock", NoBlock), Op("relu", "ResBlock", NoBlock) >>

\* AltBlock.forward: y = self.a(self.b(x)); z = self.c(x);
\* return self.relu(y + z)
AltBlockForward(ab) ==
  << Op("save", "AltBlock", NoBlock) >>
  \o BlockForward(ab.b, "b") \o BlockForward(ab.a, "a")
  \o << Op("swap", "AltBlock", NoBlock) >>
  \o BlockForward(ab.c, "c")
  \o << Op("add", "AltBlock", NoBlock), Op("relu", "AltBlock", NoBlock) >>

LayerForward(l) ==
  CASE l.kind = "Block" -> BlockForward(l, "block")
    [] l.kind = "ResBlock" -> ResBlockForward(l)
    [] l.kind = "AltBlock" -> AltBlockForward(l)
    [] l.kind = "AdaptiveAvgPool2d" -> << Op("pool", "head", l) >>
    [] l.kind = "Flatten" -> << Op("flatten", "head", l) >>
    [] l.kind = "Linear" -> << Op("linear", "head", l) >>

\* nn.Sequential.forward: every layer in order
RECURSIVE SequentialForward(_)
SequentialForward(layers) ==
  IF layers = << >> THEN << >>
  ELSE LayerForward(Head(layers)) \o SequentialForward(Tail(layers))

\* a convolution that ignores its padding argument
ConvOutNoPad(h, fs, p) == h - fs + 1

\* output height (= width) of Conv2d with stride 1
ConvOut(h, fs, p) == h + 2 * p - fs + 1

\* shape of x + y under broadcasting; << >> if the shapes are incompatible
AddShape(s, t) ==
  IF Len(s) = Len(t) /\ \A d \in 1..Len(s) : s[d] = t[d] \/ s[d] = 1 \/ t[d] = 1
    THEN [d \in 1..Len(s) |-> IF s[d] > t[d] THEN s[d] ELSE t[d]]
    ELSE << >>

\* ---------------------------------------------------- operators of the code
\* the optimizer built over the parameters of the first topology for every run
AdamOfFirst(k, rate, n) == [id |-> n + 1, owner |-> 0, lr |-> rate]

\* torch.optim.Adam(model.parameters(), lr=lr): a new optimizer object
Adam(k, rate, n) == [id |-> n + 1, owner |-> k, lr |-> rate]

NoOptimizer == [id |-> 0, owner |-> -1, lr |-> "none"]

\* zero_grad left out: the buffer keeps the gradients of earlier batches
ZeroGradKeeps(g) == g

\* optimizer.zero_grad() on a gradient buffer
ZeroGrad(g) == <<>>

\* loss.backward() adds the gradients of batch bb of epoch e to the buffer
Backward(g, e, bb) == Append(g, <<e, bb>>)

\* model.train() called once before the epoch loop instead of in every epoch
ModeAfterTrainMissing(md, k) == md

\* model.train()
ModeAfterTrain(md, k) == [md EXCEPT ![k] = "train"]

\* model.eval()
ModeAfterEval(md, k) == [md EXCEPT ![k] = "eval"]

\* only the hit counter is reset before evaluation
EvalResetKeepsCurrent(cur, a) == <<cur, 0>>

\* only the loss accumulator is reset before evaluation
EvalResetKeepsAcc(cur, a) == <<0, a>>

\* current, acc = 0, 0
EvalReset(cur, a) == <<0, 0>>

\* current = 0 at the head of every epoch
EpochReset(cur) == 0

\* metrics.insert(0, ...): the newest triple first
AppendMetricsFront(m, t) == <<t>> \o m

\* metrics.append([train_loss, valid_loss, accuracy])
AppendMetrics(m, t) == Append(m, t)

\* the columns of a group filled in reverse metric order
SetNetReversed(tbl, idx, arr) ==
  [c \in DOMAIN tbl |->
     IF c[1] = idx
       THEN [r \in 1..Len(arr) |->
               arr[r][4 - (CHOOSE m \in 1..3 : MetricNames[m] = c[2])]]
       ELSE tbl[c]]

\* results[f'net{idx}'] = arr, for a column group the table has
SetNet(tbl, idx, arr) ==
  [c \in DOMAIN tbl |->
     IF c[1] = idx
       THEN [r \in 1..Len(arr) |->
               arr[r][CHOOSE m \in 1..3 : MetricNames[m] = c[2]]]
       ELSE tbl[c]]

\* what the epoch's history says the triple of the epoch is
ExpectedTriple(s, e, nb, n) ==
  [epoch      |-> e,
   train_loss |-> <<SumSeq(LossesOf(s, e, "train")), nb>>,
   valid_loss |-> <<SumSeq(LossesOf(s, e, "eval")), LoaderLen(n, bs)>>,
   accuracy   |-> <<100 * SumSeq(HitsOf(s, e)), n>>]

TrainBody == {"zero_grad", "forward", "loss", "backward", "step", "accum"}
EvalBody == {"eval_forward", "eval_loss", "eval_accum", "eval_pred", "eval_count"}
NoGradBlock == EvalBody \cup {"eval_reset", "eval_mode", "eval_fetch",
                              "valid_mean", "accuracy"}

\* ----------------------------------------------------------------- Init
ModelLists == {[j \in 1..n |-> j - 1] : n \in 0..MaxModels}

TopologyIds == 0..(MaxModels - 1)

FwdIdle ==
  /\ fnet = 0 /\ fbatch = 0 /\ fsize = 0 /\ ftraining = FALSE /\ fpc = 0
  /\ fx = <<>> /\ fsaved = <<>> /\ flog = <<>> /\ ferr = "none"

Init ==
  /\ models \in ModelLists
  /\ epochs \in 0..MaxEpochs
  /\ lr \in LearningRates
  /\ nTrain \in 0..MaxTrainBatches
  /\ nTest \in 0..MaxTestSet
  /\ oracle \in {"any", "fixed"}
  /\ oracle = "any" =>
       /\ Len(models) <= 1
       /\ epochs * (nTrain + LoaderLen(nTest, bs)) <= MaxFree
  /\ gpc = "start" /\ i = 0 /\ results = <<>> /\ retval = <<>>
  /\ uncaught = "none"
  /\ tpc = "idle" /\ exc = "none"
  /\ metrics = <<>> /\ ep = 0 /\ current = 0 /\ acc = 0 /\ b = 0
  /\ loss = 0 /\ pred = 0
  /\ train_loss = <<>> /\ valid_loss = <<>> /\ accuracy = <<>> /\ ret = <<>>
  /\ params = [k \in TopologyIds |-> 0]
  /\ mode = [k \in TopologyIds |-> "train"]
  /\ grad = [k \in TopologyIds |-> <<>>]
  /\ gradEnabled = TRUE
  /\ optimizer = NoOptimizer /\ nOpt = 0
  /\ ops = <<>> /\ seen = <<>> /\ expected = <<>> /\ runs = <<>>
  /\ runLog = <<>>
  /\ FwdIdle

\* ------------------------------------------------------------ get_results
\* lines 339-341: the table of NaN, one row per epoch, columns of net0..net3
BuildTable ==
  /\ gpc = "start"
  /\ results' = EmptyTable(epochs)
  /\ i' = 0
  /\ gpc' = "for"
  /\ UNCHANGED <<inputs, retval, uncaught, tpc, exc, locals, nets,
                 gradEnabled, opt, ghost, fwd>>

\* lines 343-349: the next topology, a new optimizer, the call
CallTrainLoop ==
  /\ gpc = "for" /\ i < Len(models)
  /\ optimizer' = Adam(model, lr, nOpt)
  /\ nOpt' = nOpt + 1
  /\ gpc' = "call" /\ tpc' = "entry"
  /\ runLog' = Append(runLog, <<"call", i>>)
  /\ UNCHANGED <<inputs, i, results, retval, uncaught, exc, locals, nets,
                 gradEnabled, ops, seen, expected, runs, fwd>>

\* line 344: results[f'net{i}'] = <the returned array>
AssignResult ==
  /\ gpc = "assign"
  /\ \/ /\ i < NetCols /\ epochs > 0
        /\ results' = SetNet(results, i, ret)
        /\ i' = i + 1 /\ gpc' = "for"
        /\ UNCHANGED uncaught
     \/ \* a key the table does not have and a 2-D value: pandas raises
        /\ i >= NetCols /\ epochs > 0
        /\ gpc' = "raised" /\ uncaught' = "ValueError"
        /\ UNCHANGED <<i, results>>
     \/ \* an empty 1-D array into a table without rows: pandas may accept it
        /\ epochs = 0
        /\ results' = IF i < NetCols THEN results
                      ELSE [c \in DOMAIN results \cup {<<i, "">>} |-> <<>>]
        /\ i' = i + 1 /\ gpc' = "for"
        /\ UNCHANGED uncaught
     \/ \* ... or reject it
        /\ epochs = 0
        /\ gpc' = "raised" /\ uncaught' = "ValueError"
        /\ UNCHANGED <<i, results>>
  /\ UNCHANGED <<inputs, retval, tpc, exc, locals, nets, gradEnabled, opt,
                 ghost, fwd>>

\* line 351: return results
ReturnResults ==
  /\ gpc = "for" /\ i >= Len(models)
  /\ retval' = <<results>>
  /\ gpc' = "returned"
  /\ UNCHANGED <<inputs, i, results, uncaught, tpc, exc, locals, nets,
                 gradEnabled, opt, ghost, fwd>>

\* a handler around the call that goes on with the next topology
ExcSwallowed ==
  /\ gpc = "call" /\ tpc = "raised"
  /\ gpc' = "for" /\ tpc' = "idle"
  /\ i' = i + 1
  /\ UNCHANGED <<inputs, results, retval, uncaught, exc, locals, nets,
                 gradEnabled, opt, ghost, fwd>>

\* no try/except in get_results: an exception of train_loop leaves it too
ExcPropagates ==
  /\ gpc = "call" /\ tpc = "raised"
  /\ gpc' = "raised"
  /\ uncaught' = exc
  /\ UNCHANGED <<inputs, i, results, retval, tpc, exc, locals, nets,
                 gradEnabled, opt, ghost, fwd>>

\* -------------------------------------------------------------- train_loop
\* an exception leaves train_loop; leaving the with-block of torch.no_grad()
\* restores gradient tracking
Raise(kind) ==
  /\ tpc' = "raised"
  /\ exc' = kind
  /\ gradEnabled' = TRUE

\* line 290: metrics = []
TrainLoopEntry ==
  /\ gpc = "call" /\ tpc = "entry"
  /\ metrics' = <<>> /\ ep' = 0
  /\ expected' = <<>> /\ seen' = <<>>
  /\ tpc' = "epoch"
  /\ UNCHANGED <<inputs, driver, exc, current, acc, b, loss, pred, train_loss,
                 valid_loss, accuracy, ret, nets, gradEnabled, opt, ops,
                 runs, runLog, fwd>>

\* lines 292-293: for _ in range(epochs): current = 0
EpochStart ==
  /\ gpc = "call" /\ tpc = "epoch" /\ ep < epochs
  /\ current' = EpochReset(current)
  /\ tpc' = "train_mode"
  /\ UNCHANGED <<inputs, driver, exc, metrics, ep, acc, b, loss, pred,
                 train_loss, valid_loss, accuracy, ret, nets, gradEnabled, opt,
                 ghost, fwd>>

\* line 294: model.train(); line 295 creates the iterator of trainloader
TrainMode ==
  /\ gpc = "call" /\ tpc = "train_mode"
  /\ mode' = ModeAfterTrain(mode, model)
  /\ b' = 0
  /\ tpc' = "train_fetch"
  /\ UNCHANGED <<inputs, driver, exc, metrics, ep, current, acc, loss, pred,
                 train_loss, valid_loss, accuracy, ret, params, grad,
                 gradEnabled, opt, ghost, fwd>>

\* line 295: for img, lab in trainloader
TrainFetch ==
  /\ gpc = "call" /\ tpc = "train_fetch"
  /\ IF b < nTrain
       THEN b' = b + 1 /\ ops' = <<>> /\ tpc' = "zero_grad"
       ELSE tpc' = "train_mean" /\ UNCHANGED <<b, ops>>
  /\ UNCHANGED <<inputs, driver, exc, metrics, ep, current, acc, loss, pred,
                 train_loss, valid_loss, accuracy, ret, nets, gradEnabled, opt,
                 seen, expected, runs, runLog, fwd>>

\* line 297: optimizer.zero_grad()
ZeroGradStep ==
  /\ gpc = "call" /\ tpc = "zero_grad"
  /\ grad' = [grad EXCEPT ![optimizer.owner] = ZeroGrad(@)]
  /\ ops' = Append(ops, "zero_grad")
  /\ tpc' = "forward"
  /\ UNCHANGED <<inputs, driver, exc, locals, params, mode, gradEnabled, opt,
                 seen, expected, runs, runLog, fwd>>

\* line 298: out = model(img.float().cuda())
Forward ==
  /\ gpc = "call" /\ tpc = "forward"
  /\ ops' = Append(ops, "forward")
  /\ tpc' = "loss"
  /\ UNCHANGED <<inputs, driver, exc, locals, nets, gradEnabled, opt,
                 seen, expected, runs, runLog, fwd>>

\* line 299: loss = criterion(out, lab.cuda())
Loss ==
  /\ gpc = "call" /\ tpc = "loss"
  /\ \E l \in Losses(model, ep, "train", b) :
       /\ loss' = l
       /\ seen' = Append(seen, [ep |-> ep, phase |-> "train", b |-> b, loss |-> l, hits |-> 0])
  /\ ops' = Append(ops, "loss")
  /\ tpc' = "backward"
  /\ UNCHANGED <<inputs, driver, exc, metrics, ep, current, acc, b, pred,
                 train_loss, valid_loss, accuracy, ret, nets, gradEnabled, opt,
                 expected, runs, runLog, fwd>>

\* line 300: loss.backward()
BackwardStep ==
  /\ gpc = "call" /\ tpc = "backward"
  /\ IF gradEnabled
       THEN /\ grad' = [grad EXCEPT ![model] = Backward(@, ep, b)]
            /\ ops' = Append(ops, "backward")
            /\ tpc' = "step"
            /\ UNCHANGED <<exc, gradEnabled>>
       ELSE Raise("RuntimeError") /\ UNCHANGED <<grad, ops>>
  /\ UNCHANGED <<inputs, driver, locals, params, mode, opt,
                 seen, expected, runs, runLog, fwd>>

\* line 301: optimizer.step()
OptimizerStep ==
  /\ gpc = "call" /\ tpc = "step"
  /\ params' = [params EXCEPT ![optimizer.owner] = @ + 1]
  /\ ops' = Append(ops, "step")
  /\ tpc' = "accum"
  /\ UNCHANGED <<inputs, driver, exc, locals, mode, grad, gradEnabled, opt,
                 seen, expected, runs, runLog, fwd>>

\* line 302: current += loss.item()
Accumulate ==
  /\ gpc = "call" /\ tpc = "accum"
  /\ current' = current + loss
  /\ ops' = Append(ops, "accumulate")
  /\ tpc' = "train_fetch"
  /\ UNCHANGED <<inputs, driver, exc, metrics, ep, acc, b, loss, pred,
                 train_loss, valid_loss, accuracy, ret, nets, gradEnabled, opt,
                 seen, expected, runs, runLog, fwd>>

\* line 304: train_loss = current / len(trainloader)
TrainMean ==
  /\ gpc = "call" /\ tpc = "train_mean"
  /\ IF nTrain = 0
       THEN Raise("ZeroDivisionError") /\ UNCHANGED train_loss
       ELSE /\ train_loss' = TrueDiv(current, nTrain)
            /\ tpc' = "no_grad"
            /\ UNCHANGED <<exc, gradEnabled>>
  /\ UNCHANGED <<inputs, driver, metrics, ep, current, acc, b, loss, pred,
                 valid_loss, accuracy, ret, nets, opt, ghost, fwd>>

\* line 306: with torch.no_grad():
NoGradEnter ==
  /\ gpc = "call" /\ tpc = "no_grad"
  /\ gradEnabled' = FALSE
  /\ tpc' = "eval_reset"
  /\ UNCHANGED <<inputs, driver, exc, locals, nets, opt, ghost, fwd>>

\* line 307: current, acc = 0, 0
EvalResetStep ==
  /\ gpc = "call" /\ tpc = "eval_reset"
  /\ current' = EvalReset(current, acc)[1]
  /\ acc' = EvalReset(current, acc)[2]
  /\ tpc' = "eval_mode"
  /\ UNCHANGED <<inputs, driver, exc, metrics, ep, b, loss, pred, train_loss,
                 valid_loss, accuracy, ret, nets, gradEnabled, opt, ghost, fwd>>

\* line 308: model.eval(); line 309 creates the iterator of testloader
EvalMode ==
  /\ gpc = "call" /\ tpc = "eval_mode"
  /\ mode' = ModeAfterEval(mode, model)
  /\ b' = 0
  /\ tpc' = "eval_fetch"
  /\ UNCHANGED <<inputs, driver, exc, metrics, ep, current, acc, loss, pred,
                 train_loss, valid_loss, accuracy, ret, params, grad,
                 gradEnabled, opt, ghost, fwd>>

\* line 309: for img, lab in testloader
EvalFetch ==
  /\ gpc = "call" /\ tpc = "eval_fetch"
  /\ IF b < LoaderLen(nTest, bs)
       THEN b' = b + 1 /\ ops' = <<>> /\ tpc' = "eval_forward"
       ELSE tpc' = "valid_mean" /\ UNCHANGED <<b, ops>>
  /\ UNCHANGED <<inputs, driver, exc, metrics, ep, current, acc, loss, pred,
                 train_loss, valid_loss, accuracy, ret, nets, gradEnabled, opt,
                 seen, expected, runs, runLog, fwd>>

\* line 310: out = model(img.float().cuda())
EvalForward ==
  /\ gpc = "call" /\ tpc = "eval_forward"
  /\ ops' = Append(ops, "forward")
  /\ tpc' = "eval_loss"
  /\ UNCHANGED <<inputs, driver, exc, locals, nets, gradEnabled, opt,
                 seen, expected, runs, runLog, fwd>>

\* line 311: loss = criterion(out, lab.cuda())
EvalLoss ==
  /\ gpc = "call" /\ tpc = "eval_loss"
  /\ \E l \in Losses(model, ep, "eval", b) :
       /\ loss' = l
       /\ seen' = Append(seen, [ep |-> ep, phase |-> "eval", b |-> b, loss |-> l, hits |-> 0])
  /\ ops' = Append(ops, "loss")
  /\ tpc' = "eval_accum"
  /\ UNCHANGED <<inputs, driver, exc, metrics, ep, current, acc, b, pred,
                 train_loss, valid_loss, accuracy, ret, nets, gradEnabled, opt,
                 expected, runs, runLog, fwd>>

\* line 312: current += loss.item()
EvalAccumulate ==
  /\ gpc = "call" /\ tpc = "eval_accum"
  /\ current' = current + loss
  /\ ops' = Append(ops, "accumulate")
  /\ tpc' = "eval_pred"
  /\ UNCHANGED <<inputs, driver, exc, metrics, ep, acc, b, loss, pred,
                 train_loss, valid_loss, accuracy, ret, nets, gradEnabled, opt,
                 seen, expected, runs, runLog, fwd>>

\* line 313: _, pred = nn.Softmax(-1)(out).max(-1); pred is kept as the number
\* of examples of the batch whose top-1 class is their label
EvalPred ==
  /\ gpc = "call" /\ tpc = "eval_pred"
  /\ \E h \in Hits(model, ep, b, BatchLen(nTest, bs, b)) :
       /\ pred' = h
       /\ seen' = [seen EXCEPT ![Len(seen)].hits = h]
  /\ ops' = Append(ops, "pred")
  /\ tpc' = "eval_count"
  /\ UNCHANGED <<inputs, driver, exc, metrics, ep, current, acc, b, loss,
                 train_loss, valid_loss, accuracy, ret, nets, gradEnabled, opt,
                 expected, runs, runLog, fwd>>

\* line 314: acc += (pred == lab.cuda()).sum().item()
EvalCount ==
  /\ gpc = "call" /\ tpc = "eval_count"
  /\ acc' = acc + pred
  /\ ops' = Append(ops, "count")
  /\ tpc' = "eval_fetch"
  /\ UNCHANGED <<inputs, driver, exc, metrics, ep, current, b, loss, pred,
                 train_loss, valid_loss, accuracy, ret, nets, gradEnabled, opt,
                 seen, expected, runs, runLog, fwd>>

\* line 316: valid_loss = current / len(testloader)
ValidMean ==
  /\ gpc = "call" /\ tpc = "valid_mean"
  /\ IF LoaderLen(nTest, bs) = 0
       THEN Raise("ZeroDivisionError") /\ UNCHANGED valid_loss
       ELSE /\ valid_loss' = TrueDiv(current, LoaderLen(nTest, bs))
            /\ tpc' = "accuracy"
            /\ UNCHANGED <<exc, gradEnabled>>
  /\ UNCHANGED <<inputs, driver, metrics, ep, current, acc, b, loss, pred,
                 train_loss, accuracy, ret, nets, opt, ghost, fwd>>

\* line 317: accuracy = 100 * acc / len(testset)
Accuracy ==
  /\ gpc = "call" /\ tpc = "accuracy"
  /\ IF nTest = 0
       THEN Raise("ZeroDivisionError") /\ UNCHANGED accuracy
       ELSE /\ accuracy' = TrueDiv(100 * acc, nTest)
            /\ tpc' = "no_grad_exit"
            /\ UNCHANGED <<exc, gradEnabled>>
  /\ UNCHANGED <<inputs, driver, metrics, ep, current, acc, b, loss, pred,
                 train_loss, valid_loss, ret, nets, opt, ghost, fwd>>

\* end of the with-block of line 306
NoGradExit ==
  /\ gpc = "call" /\ tpc = "no_grad_exit"
  /\ gradEnabled' = TRUE
  /\ tpc' = "append"
  /\ UNCHANGED <<inputs, driver, exc, locals, nets, opt, ghost, fwd>>

\* line 319: metrics.append([train_loss, valid_loss, accuracy])
AppendStep ==
  /\ gpc = "call" /\ tpc = "append"
  /\ metrics' = AppendMetrics(metrics, <<train_loss, valid_loss, accuracy>>)
  /\ expected' = Append(expected, ExpectedTriple(seen, ep, nTrain, nTest))
  /\ ep' = ep + 1
  /\ tpc' = "epoch"
  /\ UNCHANGED <<inputs, driver, exc, current, acc, b, loss, pred, train_loss,
                 valid_loss, accuracy, ret, nets, gradEnabled, opt, ops, seen,
                 runs, runLog, fwd>>

\* line 321: return np.array(metrics), back in get_results
TrainLoopReturn ==
  /\ gpc = "call" /\ tpc = "epoch" /\ ep >= epochs
  /\ ret' = metrics
  /\ tpc' = "idle"
  /\ gpc' = "assign"
  /\ runs' = Append(runs, expected)
  /\ runLog' = Append(runLog, <<"ret", i>>)
  /\ UNCHANGED <<inputs, i, results, retval, uncaught, exc, metrics, ep,
                 current, acc, b, loss, pred, train_loss, valid_loss, accuracy,
                 nets, gradEnabled, opt, ops, seen, expected, fwd>>

\* a data-iteration error when a batch is fetched, a shape mismatch or a
\* device error in a step on a batch
StepFails ==
  /\ gpc = "call"
  /\ \/ tpc \in {"train_fetch", "eval_fetch"} /\ Raise("DataError")
     \/ tpc \in {"forward", "eval_forward", "loss", "eval_loss"} /\ Raise("ShapeError")
     \/ tpc \in (TrainBody \cup EvalBody) /\ Raise("DeviceError")
  /\ UNCHANGED <<inputs, driver, locals, nets, opt, ghost, fwd>>

LoopNext ==
  \/ BuildTable \/ CallTrainLoop \/ AssignResult \/ ReturnResults
  \/ ExcPropagates
  \/ TrainLoopEntry \/ EpochStart \/ TrainMode \/ TrainFetch \/ ZeroGradStep
  \/ Forward \/ Loss \/ BackwardStep \/ OptimizerStep \/ Accumulate
  \/ TrainMean \/ NoGradEnter \/ EvalResetStep \/ EvalMode \/ EvalFetch
  \/ EvalForward \/ EvalLoss \/ EvalAccumulate \/ EvalPred \/ EvalCount
  \/ ValidMean \/ Accuracy \/ NoGradExit \/ AppendStep \/ TrainLoopReturn
  \/ StepFails

Next == LoopNext

Spec == Init /\ [][Next]_vars

FairSpec == Spec /\ WF_vars(Next)

\* ------------------------------------------- forward pass of a topology
LoopIdle ==
  /\ models = << >> /\ epochs = 0 /\ lr = "lr_a" /\ nTrain = 0 /\ nTest = 0
  /\ oracle = "fixed"
  /\ gpc = "off" /\ i = 0 /\ results = << >> /\ retval = << >>
  /\ uncaught = "none"
  /\ tpc = "idle" /\ exc = "none"
  /\ metrics = << >> /\ ep = 0 /\ current = 0 /\ acc = 0 /\ b = 0
  /\ loss = 0 /\ pred = 0
  /\ train_loss = << >> /\ valid_loss = << >> /\ accuracy = << >> /\ ret = << >>
  /\ params = [k \in TopologyIds |-> 0]
  /\ mode = [k \in TopologyIds |-> "train"]
  /\ grad = [k \in TopologyIds |-> << >>]
  /\ gradEnabled = TRUE
  /\ optimizer = NoOptimizer /\ nOpt = 0
  /\ ops = << >> /\ seen = << >> /\ expected = << >> /\ runs = << >>
  /\ runLog = << >>

\* one of the four topologies applied to a batch of fbatch images of
\* 3 x fsize x fsize, in train or in eval mode
\* fnet below Len(Nets) is one of net0..net3; fnet = Len(Nets) + fs - 1 is
\* nn.Sequential(ResBlock(3, fs)), a lone ResBlock of kernel size fs
IsProbe(n) == n >= Len(Nets)

ProbeFs(n) == n - Len(Nets) + 1

Topology(n) == IF IsProbe(n) THEN << ResBlock(3, ProbeFs(n)) >> ELSE Nets[n + 1]

FwdInit ==
  /\ LoopIdle
  /\ fnet \in 0..(Len(Nets) + MaxFs - 1)
  /\ fbatch \in 1..MaxBatch
  /\ fsize \in IF IsProbe(fnet) THEN 1..MaxProbeSize ELSE InputSizes
  /\ ftraining \in BOOLEAN
  /\ fpc = 1
  /\ fx = [shape |-> <<fbatch, 3, fsize, fsize>>, hist |-> << >>]
  /\ fsaved = << >> /\ flog = << >> /\ ferr = "none"

Prog == SequentialForward(Topology(fnet))

Cur == Prog[fpc]

Running == fpc \in 1..Len(Prog) /\ ferr = "none"

Done == fpc = Len(Prog) + 1

loopVars == <<inputs, driver, tpc, exc, locals, nets, gradEnabled, opt, ghost>>

FwdFail(kind) == ferr' = kind /\ UNCHANGED <<fpc, fx, fsaved, flog>>

\* nn.Conv2d(c_in, c_out, fs, padding=p) on an (N, C, H, W) tensor
FwdConv ==
  /\ Running /\ Cur.op = "conv"
  /\ LET sh == fx.shape
         blk == Cur.blk
     IN IF /\ Len(sh) = 4 /\ sh[2] = blk.c_in
           /\ ConvOut(sh[3], blk.fs, blk.p) >= 1
           /\ ConvOut(sh[4], blk.fs, blk.p) >= 1
          THEN /\ fx' = [shape |-> <<sh[1], blk.c_out,
                                     ConvOut(sh[3], blk.fs, blk.p),
                                     ConvOut(sh[4], blk.fs, blk.p)>>,
                         hist |-> Append(fx.hist, <<Cur.u, "conv">>)]
               /\ fpc' = fpc + 1
               /\ UNCHANGED <<fsaved, flog, ferr>>
          ELSE FwdFail("shape")
  /\ UNCHANGED <<loopVars, fnet, fbatch, fsize, ftraining>>

\* nn.BatchNorm2d(c_out); in train mode it needs more than one value per
\* channel
FwdNorm ==
  /\ Running /\ Cur.op = "norm"
  /\ LET sh == fx.shape
     IN IF /\ Len(sh) = 4 /\ sh[2] = Cur.blk.c_out
           /\ ~(ftraining /\ sh[1] * sh[3] * sh[4] = 1)
          THEN /\ fx' = [fx EXCEPT !.hist = Append(@, <<Cur.u, "norm">>)]
               /\ fpc' = fpc + 1
               /\ UNCHANGED <<fsaved, flog, ferr>>
          ELSE FwdFail("value")
  /\ UNCHANGED <<loopVars, fnet, fbatch, fsize, ftraining>>

\* nn.ReLU()
FwdRelu ==
  /\ Running /\ Cur.op = "relu"
  /\ fx' = [fx EXCEPT !.hist = Append(@, <<Cur.u, "relu">>)]
  /\ fpc' = fpc + 1
  /\ UNCHANGED <<loopVars, fnet, fbatch, fsize, ftraining, fsaved, flog, ferr>>

\* forward(self, x) of ResBlock and AltBlock: x is kept for later use
FwdSave ==
  /\ Running /\ Cur.op = "save"
  /\ fsaved' = [shape |-> fx.shape, hist |-> << >>]
  /\ fx' = [fx EXCEPT !.hist = << >>]
  /\ fpc' = fpc + 1
  /\ UNCHANGED <<loopVars, fnet, fbatch, fsize, ftraining, flog, ferr>>

\* AltBlock.forward between its two statements: y is kept, x is current again
FwdSwap ==
  /\ Running /\ Cur.op = "swap"
  /\ fsaved' = fx
  /\ fx' = fsaved
  /\ fpc' = fpc + 1
  /\ UNCHANGED <<loopVars, fnet, fbatch, fsize, ftraining, flog, ferr>>

\* x + y (ResBlock), y + z (AltBlock): the kept tensor plus the current one
FwdAdd ==
  /\ Running /\ Cur.op = "add"
  /\ IF AddShape(fsaved.shape, fx.shape) # << >>
       THEN /\ fx' = [shape |-> AddShape(fsaved.shape, fx.shape),
                      hist |-> << <<Cur.u, "sum">> >>]
            /\ flog' = Append(flog, [unit |-> Cur.u, left |-> fsaved, right |-> fx])
            /\ fsaved' = << >>
            /\ fpc' = fpc + 1
            /\ UNCHANGED ferr
       ELSE FwdFail("shape")
  /\ UNCHANGED <<loopVars, fnet, fbatch, fsize, ftraining>>

\* nn.AdaptiveAvgPool2d(1)
FwdPool ==
  /\ Running /\ Cur.op = "pool"
  /\ fx' = [shape |-> <<fx.shape[1], fx.shape[2], Cur.blk.out, Cur.blk.out>>,
            hist |-> Append(fx.hist, <<Cur.u, "pool">>)]
  /\ fpc' = fpc + 1
  /\ UNCHANGED <<loopVars, fnet, fbatch, fsize, ftraining, fsaved, flog, ferr>>

\* nn.Flatten()
FwdFlatten ==
  /\ Running /\ Cur.op = "flatten"
  /\ fx' = [shape |-> <<fx.shape[1], fx.shape[2] * fx.shape[3] * fx.shape[4]>>,
            hist |-> Append(fx.hist, <<Cur.u, "flatten">>)]
  /\ fpc' = fpc + 1
  /\ UNCHANGED <<loopVars, fnet, fbatch, fsize, ftraining, fsaved, flog, ferr>>

\* nn.Linear(n_in, n_out)
FwdLinear ==
  /\ Running /\ Cur.op = "linear"
  /\ IF fx.shape[Len(fx.shape)] = Cur.blk.n_in
       THEN /\ fx' = [shape |-> <<fx.shape[1], Cur.blk.n_out>>,
                      hist |-> Append(fx.hist, <<Cur.u, "linear">>)]
            /\ fpc' = fpc + 1
            /\ UNCHANGED <<fsaved, flog, ferr>>
       ELSE FwdFail("shape")
  /\ UNCHANGED <<loopVars, fnet, fbatch, fsize, ftraining>>

FwdNext ==
  \/ FwdConv \/ FwdNorm \/ FwdRelu \/ FwdSave \/ FwdSwap \/ FwdAdd
  \/ FwdPool \/ FwdFlatten \/ FwdLinear

FwdSpec == FwdInit /\ [][FwdNext]_vars

\* ======================================================= properties
EnvFailures == {"DataError", "ShapeError", "DeviceError"}

\* batches of both loaders processed in one epoch
PerEpoch == nTrain + LoaderLen(nTest, bs)

\* the j-th batch evaluation of a run, were the epochs run one after the
\* other, each as all training batches then all validation batches
Canon(j) ==
  [ep    |-> (j - 1) \div PerEpoch,
   phase |-> IF (j - 1) % PerEpoch < nTrain THEN "train" ELSE "eval",
   b     |-> IF (j - 1) % PerEpoch < nTrain
               THEN ((j - 1) % PerEpoch) + 1
               ELSE ((j - 1) % PerEpoch) - nTrain + 1]

Tag(r) == [ep |-> r.ep, phase |-> r.phase, b |-> r.b]

TripleOf(x) == <<x.train_loss, x.valid_loss, x.accuracy>>

InRun == gpc = "call" /\ tpc \notin {"idle", "entry", "raised"}

C1PhaseOrder ==
  InRun =>
    /\ \A j \in 1..Len(seen) : Tag(seen[j]) = Canon(j)
    /\ Len(metrics) = ep
    /\ tpc \in {"epoch", "train_mode"} => Len(seen) = ep * PerEpoch
    /\ tpc \in {"train_mean", "no_grad", "eval_reset", "eval_mode"} =>
         Len(seen) = ep * PerEpoch + nTrain
    /\ tpc \in {"valid_mean", "accuracy", "no_grad_exit", "append"} =>
         Len(seen) = (ep + 1) * PerEpoch

C1Returned ==
  gpc = "assign" =>
    /\ ep = epochs
    /\ Len(ret) = epochs
    /\ Len(seen) = epochs * PerEpoch
    /\ \A e \in 1..epochs :
         /\ runs[i + 1][e].epoch = e - 1
         /\ ret[e] = TripleOf(runs[i + 1][e])

C1OnlyStepsAbort ==
  tpc = "raised" => exc \in EnvFailures \/ nTrain = 0 \/ nTest = 0

TrainOrder == <<"zero_grad", "forward", "loss", "backward", "step", "accumulate">>

TrainPos(pc) ==
  CHOOSE n \in 0..5 :
    <<"zero_grad", "forward", "loss", "backward", "step", "accum">>[n + 1] = pc

\* C2: in the training phase of every epoch each training batch is visited
\* exactly once, in loader order; the steps on a batch are, in this order,
\* zero_grad, forward, loss, backward, optimizer step, accumulate; the
\* optimizer has taken exactly one step per training batch, and at every
\* optimizer step the gradient buffer holds the gradients of the current
\* batch only.
C2Theorem ==
  /\ (gpc = "call" /\ tpc \in TrainBody) =>
       /\ ops = SubSeq(TrainOrder, 1, TrainPos(tpc))
       /\ params[model] = ep * nTrain + (b - 1) + (IF tpc = "accum" THEN 1 ELSE 0)
       /\ Len(SelectPhase(seen, ep, "train")) = (b - 1) + (IF TrainPos(tpc) > 2 THEN 1 ELSE 0)
  /\ (gpc = "call" /\ tpc = "step") => grad[model] = << <<ep, b>> >>
  /\ (gpc = "call" /\ tpc = "train_fetch" /\ b > 0) => ops = TrainOrder
  /\ (gpc = "call" /\ tpc = "train_mean") =>
       /\ params[model] = (ep + 1) * nTrain
       /\ \A j \in 1..nTrain : SelectPhase(seen, ep, "train")[j].b = j
       /\ Len(SelectPhase(seen, ep, "train")) = nTrain

C2Witness ==
  gpc = "call" /\ tpc = "step" /\ ep = 1 /\ b = 2 /\ grad[model] = << <<1, 2>> >>

\* C3: in every epoch the topology is in train mode with gradient tracking
\* on while a training batch is processed, and in eval mode with gradient
\* tracking off while a validation batch is processed; during the
\* evaluation phase no optimizer step is taken and the parameters keep the
\* value the training phase left.
C3Theorem ==
  /\ (gpc = "call" /\ tpc \in TrainBody) =>
       mode[model] = "train" /\ gradEnabled
  /\ (gpc = "call" /\ tpc \in EvalBody) =>
       /\ mode[model] = "eval" /\ ~gradEnabled
       /\ \A j \in 1..Len(ops) : ops[j] \notin {"step", "backward", "zero_grad"}
  /\ (gpc = "call" /\ tpc \in NoGradBlock) =>
       /\ params[model] = (ep + 1) * nTrain
       /\ ~gradEnabled

C3Witness ==
  gpc = "call" /\ tpc = "forward" /\ ep = 1 /\ mode[model] = "train"

\* C4: every recorded accuracy is 100 * correct / N, N the size of the
\* validation set and correct the hits of that epoch's evaluation phase
\* only, no batch contributing more hits than it has examples; it lies in
\* [0, 100] and is a multiple of 100 / N.
C4Theorem ==
  /\ \A e \in 1..Len(metrics) :
       /\ metrics[e][3] = expected[e].accuracy
       /\ metrics[e][3][2] = nTest
       /\ metrics[e][3][1] >= 0
       /\ metrics[e][3][1] <= 100 * metrics[e][3][2]
       /\ metrics[e][3][1] % 100 = 0
  /\ \A j \in 1..Len(seen) :
       seen[j].phase = "eval" => seen[j].hits <= BatchLen(nTest, bs, seen[j].b)

C4Witness ==
  /\ Len(metrics) = 2 /\ metrics[1][3][1] > 0 /\ metrics[2][3][1] > 0
  /\ metrics[2][3][1] < 100 * nTest /\ LoaderLen(nTest, bs) > 1

\* C5 (as amended): every recorded train_loss is the sum of the losses of
\* that epoch's training batches over the number of training batches, and
\* every recorded valid_loss the sum of the losses of that epoch's
\* validation batches over the number of validation batches; the mean is
\* defined for a loader of at least one batch, and with a loader of zero
\* batches the division raises and no triple is recorded.
C5Theorem ==
  /\ \A e \in 1..Len(metrics) :
       /\ metrics[e][1] = expected[e].train_loss
       /\ metrics[e][2] = expected[e].valid_loss
       /\ metrics[e][1][2] = nTrain /\ nTrain > 0
       /\ metrics[e][2][2] = LoaderLen(nTest, bs) /\ LoaderLen(nTest, bs) > 0
  /\ (gpc = "call" /\ tpc \in {"no_grad", "append"}) =>
       train_loss = <<SumSeq(LossesOf(seen, ep, "train")), nTrain>>
  /\ (gpc = "call" /\ tpc = "append") =>
       valid_loss = <<SumSeq(LossesOf(seen, ep, "eval")), LoaderLen(nTest, bs)>>
  /\ (exc = "ZeroDivisionError") =>
       /\ tpc = "raised"
       /\ nTrain = 0 \/ LoaderLen(nTest, bs) = 0
       /\ Len(metrics) = 0
  /\ (gpc = "call" /\ tpc \in NoGradBlock \cup {"no_grad"}) => nTrain > 0
  /\ (gpc = "call" /\ tpc \in {"accuracy", "no_grad_exit", "append"}) =>
       LoaderLen(nTest, bs) > 0

C5Witness ==
  /\ Len(metrics) = 2 /\ nTrain > 1 /\ LoaderLen(nTest, bs) > 1
  /\ metrics[1][1][1] > 0 /\ metrics[2][2][1] > 0

\* C5 (as stated): the mean is defined for every loader, a loader of zero
\* batches included: no division of train_loop raises.
C5Original == exc # "ZeroDivisionError"

\* the events of get_results so far: call and return of run 0, of run 1, ...
RunLogCanon(j) == <<IF j % 2 = 1 THEN "call" ELSE "ret", (j - 1) \div 2>>

Sequential == \A j \in 1..Len(runLog) : runLog[j] = RunLogCanon(j)

C7Frame ==
  \A k \in TopologyIds :
    params'[k] # params[k] =>
      /\ gpc = "call" /\ tpc = "step"
      /\ k = model /\ optimizer.owner = k
      /\ mode[k] = "train"
      /\ params'[k] = params[k] + 1

\* C7: the runs of a get_results call are one after the other; every run
\* has an optimizer created for it, over the parameters of its topology
\* only and with the learning rate given to get_results; the parameters of
\* a topology change only by a step of its own optimizer in a training
\* phase of its own run: topologies run earlier keep what their run left,
\* topologies not yet run are untouched.
C7Theorem ==
  /\ [](/\ Sequential
        /\ gpc \in {"call", "assign"} =>
             /\ optimizer = [id |-> i + 1, owner |-> model, lr |-> lr]
             /\ nOpt = i + 1
        /\ \A j \in 1..Len(models) :
             /\ j > i + 1 => params[models[j]] = 0 /\ grad[models[j]] = <<>>
             /\ (j < i + 1 /\ gpc # "start") => params[models[j]] = epochs * nTrain)
  /\ [][C7Frame]_vars

C7Witness ==
  /\ Len(models) > 3
  /\ gpc = "call" /\ i = 2 /\ tpc = "accum" /\ ep = 1 /\ b = 1
  /\ params[models[2]] > params[model] /\ params[model] > 1
  /\ params[models[4]] = 0

C8Frozen ==
  tpc = "raised" =>
    /\ tpc' = "raised"
    /\ gpc' \in {"call", "raised"}
    /\ UNCHANGED <<exc, locals, nets, opt, ghost, i, results, retval>>

\* C8: once a step of train_loop has raised, nothing is retried: no further
\* training or evaluation step runs, no triple is appended, no parameter
\* changes and no later topology is trained; the exception leaves
\* train_loop and get_results as it was raised, and get_results returns no
\* table.
C8Theorem ==
  /\ [](/\ gpc = "raised" => retval = <<>>
        /\ (gpc = "raised" /\ tpc = "raised") => uncaught = exc
        /\ tpc = "raised" =>
             /\ gpc \in {"call", "raised"}
             /\ Len(runLog) = 2 * i + 1
             /\ Len(runs) = i)
  /\ [][C8Frozen]_vars
  /\ (tpc = "raised") ~> (gpc = "raised" /\ uncaught = exc)

C8Witness ==
  /\ gpc = "raised" /\ uncaught = "ShapeError" /\ tpc = "raised"
  /\ i = 1 /\ Len(models) > 2 /\ Len(metrics) = 1 /\ b = 2

\* the summand of a logged addition that went through the chained pair
ChainSummand(entry) ==
  IF entry.unit = "ResBlock" THEN entry.right ELSE entry.left

\* C9: in ResBlock and AltBlock the chained pair is applied as the unit
\* with activation first and the unit without activation second, so that
\* the chain's summand is the un-rectified normalized output of the second
\* unit.
C9Claim ==
  \A j \in 1..Len(flog) :
    ChainSummand(flog[j]).hist =
      << <<"a", "conv">>, <<"a", "norm">>, <<"a", "relu">>,
         <<"b", "conv">>, <<"b", "norm">> >>

\* what forward does: b (no activation) first, a (activation) second
C9Actual ==
  \A j \in 1..Len(flog) :
    ChainSummand(flog[j]).hist =
      << <<"b", "conv">>, <<"b", "norm">>, <<"a", "conv">>,
         <<"a", "norm">>, <<"a", "relu">> >>

\* C10: on a batch of shape (batch, 3, 32, 32) each of net0..net3 runs
\* without a shape error: every convolution gets the channel count it was
\* built for and leaves a spatial size of at least 1, the two summands of
\* every ResBlock and AltBlock have the same shape, the linear head gets
\* 64 features and the output has shape (batch, 10).
C10Theorem ==
  (fpc > 0 /\ ~IsProbe(fnet) /\ fsize = 32) =>
    /\ ferr = "none"
    /\ (Running /\ Cur.op = "conv") =>
         /\ fx.shape[2] = Cur.blk.c_in
         /\ ConvOut(fx.shape[3], Cur.blk.fs, Cur.blk.p) >= 1
    /\ (Running /\ Cur.op = "norm") => fx.shape[2] = Cur.blk.c_out
    /\ (Running /\ Cur.op = "add") => fsaved.shape = fx.shape
    /\ \A j \in 1..Len(flog) : flog[j].left.shape = flog[j].right.shape
    /\ (Running /\ Cur.op = "linear") => fx.shape = <<fbatch, 64>>
    /\ Done => fx.shape = <<fbatch, 10>>

C10Witness ==
  /\ fsize = 32 /\ fnet = 3 /\ fbatch = MaxBatch /\ fpc = Len(Prog) + 1
  /\ Len(flog) = 3 /\ fx.shape = <<MaxBatch, 10>>

\* C11: a lone ResBlock(nc, fs) is built for every kernel size fs; its two
\* convolutions have padding 1 whatever fs, so each changes the spatial
\* size by 3 - fs and, whenever x + y is reached, the spatial size of y is
\* that of x plus 2 * (3 - fs): the summands have the same spatial size if
\* and only if fs = 3. For fs = 3 no step fails on a shape; a failure comes
\* only from a forward step (a convolution, a norm or the addition).
C11Theorem ==
  (fpc > 0 /\ IsProbe(fnet)) =>
    /\ \A blk \in {ResBlock(3, ProbeFs(fnet)).a, ResBlock(3, ProbeFs(fnet)).b} :
         blk.p = 1 /\ blk.fs = ProbeFs(fnet)
    /\ (fpc \in 3..Len(Prog) + 1 /\ fsaved # << >>) =>
         /\ fsaved.shape = <<fbatch, 3, fsize, fsize>>
         /\ Len(fx.hist) \in {1, 2} => fx.shape[3] = fsize + (3 - ProbeFs(fnet))
         /\ Len(fx.hist) > 2 => fx.shape[3] = fsize + 2 * (3 - ProbeFs(fnet))
         /\ fx.shape[4] = fx.shape[3]
    /\ (Running /\ Cur.op = "add") =>
         /\ fx.shape[3] = fsaved.shape[3] + 2 * (3 - ProbeFs(fnet))
         /\ (fx.shape[3] = fsaved.shape[3]) <=> (ProbeFs(fnet) = 3)
         /\ (fx.shape = fsaved.shape) <=> (ProbeFs(fnet) = 3)
    /\ \A j \in 1..Len(flog) :
         (flog[j].left.shape = flog[j].right.shape) <=> (ProbeFs(fnet) = 3)
    /\ ProbeFs(fnet) = 3 => ferr # "shape"
    /\ ferr # "none" => Cur.op \in {"conv", "norm", "add"}

\* x + y of a ResBlock of kernel size 5 fails on summands of different size
C11Witness ==
  /\ IsProbe(fnet) /\ ProbeFs(fnet) = 5 /\ fsize = MaxProbeSize
  /\ fpc \in 1..Len(Prog) /\ Cur.op = "add" /\ ferr = "shape"
  /\ fx.shape[3] = fsaved.shape[3] - 4

====
